---- MODULE Spec2Model ----
(***************************************************************************)
(* Exploration wrappers (torchrl/modules/td_module/exploration.py) and     *)
(* recorders (torchrl/record/recorder.py).                                 *)
(*                                                                         *)
(* Numbers.  torch.tensor([python_float]) is a float32 tensor, and every   *)
(* tensor operation of the wrappers rounds to float32 (round to nearest,   *)
(* ties to even).  A float is modelled as a record                         *)
(*     [k |-> "fin", m |-> mantissa, e |-> exponent]   value m * 2^e       *)
(* with m = 0 (and e = 0) or 2^23 <= |m| < 2^24, or as one of the          *)
(* specials "inf", "ninf", "nan" (m = 0, e = 0).  The exponent range is    *)
(* not bounded: no value of the model comes near float32's overflow or     *)
(* subnormal range.                                                        *)
(***************************************************************************)
EXTENDS Integers, Sequences, FiniteSets, TLC

\* float32 has a 24-bit significand (torch's default dtype).
MantBits == 24

Pow2(k) == IF k <= 0 THEN 1 ELSE 2 ^ k

\* The number of bits of n >= 0.
RECURSIVE BitLen(_)
BitLen(n) ==
    IF n = 0 THEN 0
    ELSE IF n >= 4096 THEN 12 + BitLen(n \div 4096)
    ELSE 1 + BitLen(n \div 2)

Min(a, b) == IF a <= b THEN a ELSE b

Abs(a) == IF a < 0 THEN -a ELSE a

FZero == [k |-> "fin", m |-> 0, e |-> 0]
FInf == [k |-> "inf", m |-> 0, e |-> 0]
FNInf == [k |-> "ninf", m |-> 0, e |-> 0]
FNaN == [k |-> "nan", m |-> 0, e |-> 0]

\* The float nearest to (n + f) * 2^e, where n >= 0 is an integer and
\* 0 < f < 1 when sticky, f = 0 otherwise; times sgn (1 or -1).
FRound(sgn, n, e, sticky) ==
    LET L == BitLen(n) IN
    IF n = 0 THEN FZero
    ELSE IF L <= MantBits
         THEN [k |-> "fin", m |-> sgn * n * Pow2(MantBits - L), e |-> e - (MantBits - L)]
         ELSE LET d  == L - MantBits
                  q  == n \div Pow2(d)
                  r  == n % Pow2(d)
                  h  == Pow2(d - 1)
                  up == r > h \/ (r = h /\ (sticky \/ q % 2 = 1))
                  q1 == IF up THEN q + 1 ELSE q
              IN  IF q1 = Pow2(MantBits)
                  THEN [k |-> "fin", m |-> sgn * Pow2(MantBits - 1), e |-> e + d + 1]
                  ELSE [k |-> "fin", m |-> sgn * q1, e |-> e + d]

\* The rounding of a signed integer N (plus a fraction in (0,1) when sticky).
FRoundSigned(N, e, sticky) ==
    IF N >= 0 THEN FRound(1, N, e, sticky)
    ELSE IF sticky THEN FRound(-1, -N - 1, e, TRUE)
    ELSE FRound(-1, -N, e, FALSE)

FNeg(x) ==
    CASE x.k = "fin"  -> [x EXCEPT !.m = -x.m]
      [] x.k = "inf"  -> FNInf
      [] x.k = "ninf" -> FInf
      [] OTHER        -> FNaN

\* x + y on finite floats, correctly rounded: the operand of the smaller
\* exponent is aligned keeping six guard bits and a sticky bit.
FAddFin(x, y) ==
    IF x.m = 0 THEN y
    ELSE IF y.m = 0 THEN x
    ELSE LET hi == IF x.e >= y.e THEN x ELSE y
             lo == IF x.e >= y.e THEN y ELSE x
             g  == hi.e - lo.e
         IN  IF g <= 6
             THEN FRoundSigned(hi.m * Pow2(g) + lo.m, lo.e, FALSE)
             ELSE LET s == Min(g - 6, MantBits + 1)
                  IN  FRoundSigned(hi.m * 64 + (lo.m \div Pow2(s)), hi.e - 6,
                                   (lo.m % Pow2(s)) # 0)

FAdd(x, y) ==
    CASE x.k = "nan" \/ y.k = "nan" -> FNaN
      [] x.k = "fin" /\ y.k = "fin" -> FAddFin(x, y)
      [] x.k = "fin"                -> y
      [] y.k = "fin"                -> x
      [] x.k = y.k                  -> x
      [] OTHER                      -> FNaN

FSub(x, y) == FAdd(x, FNeg(y))

\* The long division n / a continued until the quotient has MantBits + 2 bits.
RECURSIVE LongDiv(_, _, _, _)
LongDiv(q, r, a, e) ==
    IF q >= Pow2(MantBits + 1) THEN <<q, r, e>>
    ELSE LongDiv(2 * q + ((2 * r) \div a), (2 * r) % a, a, e - 1)

\* x / A for a float x and a Python int A (|A| < 2^24, exact as a float32).
\* Division by zero is IEEE: +-inf, or nan for 0/0.
FDivInt(x, A) ==
    CASE x.k = "nan" -> FNaN
      [] x.k # "fin" -> IF A = 0 THEN x ELSE IF A > 0 THEN x ELSE FNeg(x)
      [] A = 0       -> IF x.m = 0 THEN FNaN ELSE IF x.m > 0 THEN FInf ELSE FNInf
      [] x.m = 0     -> FZero
      [] OTHER       ->
           LET n   == Abs(x.m)
               a   == Abs(A)
               sgn == IF (x.m > 0) = (A > 0) THEN 1 ELSE -1
               d   == LongDiv(n \div a, n % a, a, x.e)
           IN  FRound(sgn, d[1], d[3], d[2] # 0)

\* x > y; every comparison with nan is false.
FGt(x, y) ==
    CASE x.k = "nan" \/ y.k = "nan" -> FALSE
      [] x.k = "fin" /\ y.k = "fin" -> FAddFin(x, FNeg(y)).m > 0
      [] x.k = "inf"                -> y.k # "inf"
      [] x.k = "ninf"               -> FALSE
      [] OTHER                      -> y.k = "ninf"

FLt(x, y) == FGt(y, x)

\* x * y, correctly rounded: the 48-bit product of the significands is formed
\* from 12-bit halves and rounded once.
FMul(x, y) ==
    IF x.k # "fin" \/ y.k # "fin" THEN FNaN
    ELSE IF x.m = 0 \/ y.m = 0 THEN FZero
    ELSE LET a   == Abs(x.m)
             b   == Abs(y.m)
             a1  == a \div 4096
             a0  == a % 4096
             b1  == b \div 4096
             b0  == b % 4096
             mid == a1 * b0 + a0 * b1
             los == (mid % 4096) * 4096 + a0 * b0
             hi  == a1 * b1 + (mid \div 4096) + (los \div Pow2(MantBits))
             lo  == los % Pow2(MantBits)
             sgn == IF (x.m > 0) = (y.m > 0) THEN 1 ELSE -1
         IN  FRound(sgn, hi * 64 + (lo \div Pow2(MantBits - 6)), x.e + y.e + MantBits - 6,
                    (lo % Pow2(MantBits - 6)) # 0)

\* A Python int (or a long tensor's entry) as a float32.
FInt(n) == FRound(IF n < 0 THEN -1 ELSE 1, Abs(n), 0, FALSE)

\* torch.tensor([n / d]): the float32 nearest to the rational n / d.
FRat(n, d) == FDivInt(FInt(n), d)

\* Python's max(a, b): b when b > a, else a (so max(a, nan) is a).
PyMax(a, b) == IF FGt(b, a) THEN b ELSE a


\* torch.clamp_min(x, lo): the larger of the two.
FClampMin(x, lo) == IF FLt(x, lo) THEN lo ELSE x

\* A value that is not there (an attribute never assigned, a key not in the record).
FUnset == [k |-> "unset", m |-> 0, e |-> 0]

\* The integer square root of a perfect square, and the square root of a
\* rational <<n, d>> whose terms are perfect squares (np.sqrt(self.dt)).
ISqrt(n) == CHOOSE r \in 0..n : r * r = n

RatSqrt(q) == <<ISqrt(q[1]), ISqrt(q[2])>>

(***************************************************************************)
(* Bounds of the model.                                                    *)
(***************************************************************************)
\* step() iterations summed over all calls on one wrapper.
MaxTotalFrames == 4
\* The largest frames argument of one step() call.
MaxFrames == 2
\* The largest step counter an add_sample call may start from.
MaxOUSteps == 1

\* The record's batch elements (tensordict.batch_size = [2]), one action
\* entry each.
Batch == {1, 2}

(***************************************************************************)
(* Inputs.  A Python float argument is the rational <<n, d>> it denotes.   *)
(***************************************************************************)
EpsArgs == {<<0, 1>>, <<1, 10>>, <<1, 1>>}

AnnealArgs == {-2, 0, 2, 3}

\* exploration_mode(): "random", None (unset) or a deterministic mode.
Modes == {"random", "None", "mode"}

\* torch.rand draws are multiples of 2^-24 in [0, 1); the largest is 1 - 2^-24.
MaxDraw == [k |-> "fin", m |-> 16777215, e |-> -24]

\* torch.rand(tensordict.shape): the draws, one per batch element.
RandSamples ==
    { [i \in Batch |-> IF i = 1 THEN FZero ELSE MaxDraw],
      [i \in Batch |-> IF i = 1 THEN MaxDraw ELSE FRat(1, 2)],
      [i \in Batch |-> IF i = 1 THEN FRat(1, 2) ELSE FZero] }

\* spec.rand(tensordict.shape): the sampled actions, one per batch element.
SpecRandSamples ==
    { [i \in Batch |-> IF i = 1 THEN FRat(1, 2) ELSE FRat(-1, 1)],
      [i \in Batch |-> IF i = 1 THEN FRat(-1, 1) ELSE FRat(1, 2)] }

\* torch.randn_like(prev_noise): the draws, one per batch element.
RandnSamples ==
    { [i \in Batch |-> IF i = 1 THEN FRat(-1, 1) ELSE FRat(3, 4)],
      [i \in Batch |-> IF i = 1 THEN FRat(3, 4) ELSE FRat(3, 4)] }

NoSigmaMin == [given |-> FALSE, v |-> <<0, 1>>]

SomeSigmaMin(q) == [given |-> TRUE, v |-> q]

\* _OrnsteinUhlenbeckProcess arguments: the defaults, an annealed sigma, and
\* an annealing length of zero.
OUDefaultArgs ==
    [theta |-> <<3, 20>>, mu |-> <<0, 1>>, sigma |-> <<1, 5>>, dt |-> <<1, 100>>,
     x0 |-> <<0, 1>>, sigma_min |-> NoSigmaMin, n_steps_annealing |-> 1000]

OUWrapArgs ==
    { OUDefaultArgs,
      [OUDefaultArgs EXCEPT !.sigma_min = SomeSigmaMin(<<1, 20>>), !.n_steps_annealing = 2],
      [OUDefaultArgs EXCEPT !.sigma_min = SomeSigmaMin(<<1, 20>>), !.n_steps_annealing = 0] }

(***************************************************************************)
(* State.                                                                  *)
(***************************************************************************)
VARIABLES
    w,       \* the exploration wrapper: kind, constructor outcome, eps buffers
    ou,      \* the _OrnsteinUhlenbeckProcess: its attributes
    policy,  \* the wrapped deterministic policy's action for the record
    td,      \* the record (tensordict): action, OU keys
    last,    \* the last call: operation, arguments, outcome, state before it
    nframes, \* step() iterations run so far on the wrapper
    run      \* add_sample calls since the record was handed in or reset, and
             \* the step counters it had then

wvars == <<w, ou, policy, td, last, nframes, run>>

\* The caller's record objects (passed to TensorDictRecorder._call by reference).
Objs == {1, 2}

VARIABLES
    vr,     \* the recorder: kind, constructor outcome, iter, skip, count, buffer
    heap,    \* the caller's records: object -> current content
    sink,    \* what dump handed to the writer / saved to files, in order
    rlast,   \* the last call: operation, outcome, recorder and sink before it
    seen     \* calls since construction or the last completed dump, and totals

rvars == <<vr, heap, sink, rlast, seen>>

NoRecorder ==
    [kind |-> "none", ctor |-> "none", iter |-> 0, skip |-> 0, count |-> 0, buf |-> <<>>,
     skip_reset |-> FALSE, keys |-> FALSE, has_tag |-> FALSE]

NoSeen == [log |-> <<>>, calls |-> 0, dumps |-> 0, muts |-> 0]

NoRLast == [op |-> "init", err |-> "none", before |-> NoRecorder, sink_before |-> <<>>,
            heap_before |-> [o \in Objs |-> 0], arg |-> 0, log |-> <<>>]

vars == <<wvars, rvars>>

\* The recorder variables of a run that builds no recorder.
RecorderIdle ==
    /\ vr = NoRecorder
    /\ heap = [o \in Objs |-> 0]
    /\ sink = <<>>
    /\ rlast = NoRLast
    /\ seen = NoSeen

NoLast ==
    [op |-> "init", err |-> "none", frames |-> 0, mode |-> "None",
     draws |-> [i \in Batch |-> FZero], rand |-> [i \in Batch |-> FZero],
     randn |-> [i \in Batch |-> FZero], eps_arg |-> FZero,
     eps_before |-> FUnset, td_before |-> <<>>]

\* A record holding neither the action nor the OU keys.
EmptyTd ==
    [action |-> [i \in Batch |-> FUnset], keys |-> {},
     noise |-> [i \in Batch |-> FUnset], steps |-> [i \in Batch |-> -1]]

NoOU ==
    [ctor |-> "none", theta |-> FUnset, mu |-> FUnset, sigma |-> FUnset, dt |-> FUnset,
     sqrt_dt |-> FUnset, x0 |-> FUnset, m |-> FUnset, c |-> FUnset, sigma_min |-> FUnset,
     has_sigma_min |-> FALSE, n_steps_annealing |-> 0]

NoWrapper ==
    [kind |-> "none", ctor |-> "none", eps_init |-> FUnset, eps_end |-> FUnset,
     annealing_num_steps |-> 0, eps |-> FUnset, args |-> <<<<0, 1>>, <<0, 1>>>>]

(***************************************************************************)
(* Constructors.                                                           *)
(***************************************************************************)
\* self.m = -float(sigma - sigma_min) / float(n_steps_annealing)
OUSlope(a) ==
    FRat(-(a.sigma[1] * a.sigma_min.v[2] - a.sigma_min.v[1] * a.sigma[2]),
         a.sigma[2] * a.sigma_min.v[2] * a.n_steps_annealing)

OUProcess_init(a) ==
    IF a.sigma_min.given /\ a.n_steps_annealing = 0
    THEN [NoOU EXCEPT !.ctor = "ZeroDivisionError"]
    ELSE [ctor |-> "ok",
          theta |-> FRat(a.theta[1], a.theta[2]),
          mu |-> FRat(a.mu[1], a.mu[2]),
          sigma |-> FRat(a.sigma[1], a.sigma[2]),
          dt |-> FRat(a.dt[1], a.dt[2]),
          sqrt_dt |-> FRat(RatSqrt(a.dt)[1], RatSqrt(a.dt)[2]),
          x0 |-> FRat(a.x0[1], a.x0[2]),
          m |-> IF a.sigma_min.given THEN OUSlope(a) ELSE FZero,
          c |-> FRat(a.sigma[1], a.sigma[2]),
          sigma_min |-> IF a.sigma_min.given
                        THEN FRat(a.sigma_min.v[1], a.sigma_min.v[2])
                        ELSE FRat(a.sigma[1], a.sigma[2]),
          has_sigma_min |-> a.sigma_min.given,
          n_steps_annealing |-> a.n_steps_annealing]

\* An ordering test that also rejects eps_end = eps_init.
EpsOrderBad_ge(eps_init, eps_end) == ~FLt(eps_end, eps_init)

\* The eps_end > eps_init test of both constructors, on the float32 buffers.
EpsOrderBad(eps_init, eps_end) == FGt(eps_end, eps_init)

EGreedyWrapper_init(ei, ee, A) ==
    LET i == FRat(ei[1], ei[2])
        e == FRat(ee[1], ee[2])
    IN  IF EpsOrderBad(i, e)
        THEN [NoWrapper EXCEPT !.kind = "EGreedy", !.ctor = "RuntimeError",
                               !.eps_init = i, !.eps_end = e, !.args = <<ei, ee>>]
        ELSE [kind |-> "EGreedy", ctor |-> "ok", eps_init |-> i, eps_end |-> e,
              annealing_num_steps |-> A, eps |-> i, args |-> <<ei, ee>>]

\* dupkeys: the policy's out_keys already hold one of the OU keys.
OUWrapper_init(ei, ee, A, proc, dupkeys) ==
    LET i == FRat(ei[1], ei[2])
        e == FRat(ee[1], ee[2])
    IN  IF proc.ctor # "ok"
        THEN [NoWrapper EXCEPT !.kind = "OU", !.ctor = proc.ctor, !.args = <<ei, ee>>]
        ELSE IF EpsOrderBad(i, e)
        THEN [NoWrapper EXCEPT !.kind = "OU", !.ctor = "ValueError",
                               !.eps_init = i, !.eps_end = e, !.args = <<ei, ee>>]
        ELSE IF dupkeys
        THEN [NoWrapper EXCEPT !.kind = "OU", !.ctor = "RuntimeError",
                               !.eps_init = i, !.eps_end = e, !.args = <<ei, ee>>]
        ELSE [kind |-> "OU", ctor |-> "ok", eps_init |-> i, eps_end |-> e,
              annealing_num_steps |-> A, eps |-> i, args |-> <<ei, ee>>]

(***************************************************************************)
(* step: the epsilon decay.                                                *)
(***************************************************************************)
\* A decay step without the floor at eps_end.
Decay_noFloor(wr, eps) == FSub(eps, FDivInt(FSub(wr.eps_init, wr.eps_end), wr.annealing_num_steps))

\* One iteration of the loop body:
\* eps = max(eps_end, eps - (eps_init - eps_end) / annealing_num_steps)
Decay(wr, eps) ==
    PyMax(wr.eps_end,
          FSub(eps, FDivInt(FSub(wr.eps_init, wr.eps_end), wr.annealing_num_steps)))

RECURSIVE DecayLoop(_, _, _)
DecayLoop(wr, eps, n) == IF n <= 0 THEN eps ELSE DecayLoop(wr, Decay(wr, eps), n - 1)

\* A step without the guard on annealing_num_steps.
OUStepGuard_none(wr) == TRUE

\* Whether an iteration of OrnsteinUhlenbeckProcessWrapper.step decays (else it raises).
OUStepGuard(wr) == wr.annealing_num_steps > 0

EGreedyWrapper_step(frames) ==
    /\ UNCHANGED rvars
    /\ w.kind = "EGreedy" /\ w.ctor = "ok"
    /\ nframes + frames <= MaxTotalFrames
    /\ w' = [w EXCEPT !.eps = DecayLoop(w, w.eps, frames)]
    /\ nframes' = nframes + frames
    /\ last' = [NoLast EXCEPT !.op = "step", !.frames = frames, !.eps_before = w.eps,
                              !.td_before = td]
    /\ UNCHANGED <<ou, policy, td, run>>

OUWrapper_step(frames) ==
    /\ UNCHANGED rvars
    /\ w.kind = "OU" /\ w.ctor = "ok"
    /\ nframes + frames <= MaxTotalFrames
    /\ IF frames = 0 \/ OUStepGuard(w)
       THEN /\ w' = [w EXCEPT !.eps = DecayLoop(w, w.eps, frames)]
            /\ nframes' = nframes + frames
            /\ last' = [NoLast EXCEPT !.op = "step", !.frames = frames,
                                      !.eps_before = w.eps, !.td_before = td]
       ELSE /\ UNCHANGED <<w, nframes>>
            /\ last' = [NoLast EXCEPT !.op = "step", !.frames = frames,
                                      !.err = "ValueError", !.eps_before = w.eps,
                                      !.td_before = td]
    /\ UNCHANGED <<ou, policy, td, run>>


(***************************************************************************)
(* forward.                                                                *)
(***************************************************************************)
\* A mode test that explores in every mode.
Exploring_always(mode) == TRUE

\* exploration_mode() == "random" or exploration_mode() is None
Exploring(mode) == mode = "random" \/ mode = "None"

\* self.td_module.forward(tensordict): the policy writes its action.
PolicyForward(rec) == [rec EXCEPT !.action = policy]

\* A choice by draw <= eps.
EGreedyCond_le(draw, eps) == IF FGt(draw, eps) THEN FZero ELSE FInt(1)

\* cond = (torch.rand(...) < eps).to(out.dtype), per batch element.
EGreedyCond(draw, eps) == IF FLt(draw, eps) THEN FInt(1) ELSE FZero

\* out = cond * spec.rand(...) + (1 - cond) * out
EGreedyMix(cond, rnd, out) == FAdd(FMul(cond, rnd), FMul(FSub(FInt(1), cond), out))

EGreedyWrapper_forward(mode, draws, rnd) ==
    /\ UNCHANGED rvars
    /\ w.kind = "EGreedy" /\ w.ctor = "ok"
    /\ LET td1 == PolicyForward(td)
       IN  td' = IF Exploring(mode)
                 THEN [td1 EXCEPT !.action =
                          [i \in Batch |->
                              EGreedyMix(EGreedyCond(draws[i], w.eps), rnd[i], td1.action[i])]]
                 ELSE td1
    /\ last' = [NoLast EXCEPT !.op = "forward", !.mode = mode, !.draws = draws,
                              !.rand = rnd, !.eps_before = w.eps, !.td_before = td]
    /\ UNCHANGED <<w, ou, policy, nframes, run>>

\* A schedule without the clamp at sigma_min.
current_sigma_noClamp(proc, n_steps) == FAdd(FMul(proc.m, FInt(n_steps)), proc.c)

\* sigma = (self.m * n_steps + self.c).clamp_min(self.sigma_min)
current_sigma(proc, n_steps) ==
    FClampMin(FAdd(FMul(proc.m, FInt(n_steps)), proc.c), proc.sigma_min)

\* _make_noise_pair: zero noise of the action's shape, zero long step counters.
make_noise_pair(rec) ==
    [rec EXCEPT !.keys = {"noise", "steps"},
                !.noise = [i \in Batch |-> FZero],
                !.steps = [i \in Batch |-> 0]]

\* The noise recurrence for one batch element; prev already holds x0.
OUNoise(proc, prev, n_steps, randn) ==
    FAdd(FAdd(prev, FMul(FMul(proc.theta, FSub(proc.mu, prev)), proc.dt)),
         FMul(FMul(current_sigma(proc, n_steps), proc.sqrt_dt), randn))

\* A step counter capped at two.
NextSteps_capped(n_steps) == IF n_steps >= 2 THEN n_steps ELSE n_steps + 1

\* A step counter increased by two.
NextSteps_two(n_steps) == n_steps + 2

\* The step counter written back by add_sample.
NextSteps(n_steps) == n_steps + 1

\* add_sample(tensordict, eps): the record after the call.
add_sample(proc, rec, eps, randn) ==
    LET r1    == IF "noise" \notin rec.keys THEN make_noise_pair(rec) ELSE rec
        prev  == [i \in Batch |-> FAdd(r1.noise[i], proc.x0)]
        noise == [i \in Batch |-> OUNoise(proc, prev[i], r1.steps[i], randn[i])]
    IN  [r1 EXCEPT !.noise  = [i \in Batch |-> FSub(noise[i], proc.x0)],
                   !.action = [i \in Batch |-> FAdd(r1.action[i], FMul(eps, noise[i]))],
                   !.steps  = [i \in Batch |-> NextSteps(r1.steps[i])]]

\* The calls the model follows: step counters up to MaxOUSteps.
OUWithinBound(rec) == \A i \in Batch : rec.steps[i] <= MaxOUSteps

OUWrapper_forward(mode, randn) ==
    /\ UNCHANGED rvars
    /\ w.kind = "OU" /\ w.ctor = "ok"
    /\ OUWithinBound(td)
    /\ LET td1 == PolicyForward(td)
       IN  td' = IF Exploring(mode) THEN add_sample(ou, td1, w.eps, randn) ELSE td1
    /\ last' = [NoLast EXCEPT !.op = "forward", !.mode = mode, !.randn = randn,
                              !.eps_arg = w.eps, !.eps_before = w.eps, !.td_before = td]
    /\ run' = IF Exploring(mode) THEN [run EXCEPT !.n = run.n + 1] ELSE run
    /\ UNCHANGED <<w, ou, policy, nframes>>

(***************************************************************************)
(* The wrappers' specification.                                            *)
(***************************************************************************)
\* A record a caller hands in: fresh, or carrying the OU keys of earlier calls.
UsedTd ==
    [EmptyTd EXCEPT !.keys = {"noise", "steps"},
                    !.noise = [i \in Batch |-> IF i = 1 THEN FRat(1, 8) ELSE FZero],
                    !.steps = [i \in Batch |-> IF i = 1 THEN 1 ELSE 0]]

FixedPolicy == [i \in Batch |-> IF i = 1 THEN FRat(1, 4) ELSE FRat(-1, 1)]

NoDraws == [i \in Batch |-> FZero]

\* The step counters a record starts from (0 where the key is absent).
RunFrom(rec) == [n |-> 0, total |-> 0, fresh |-> rec.keys = {}, base |-> [i \in Batch |-> IF "steps" \in rec.keys THEN rec.steps[i] ELSE 0]]

InitWrap ==
    /\ RecorderIdle
    /\ policy = FixedPolicy
    /\ last = NoLast
    /\ nframes = 0
    /\ \/ /\ \E ei \in EpsArgs, ee \in EpsArgs, A \in AnnealArgs :
                w = EGreedyWrapper_init(ei, ee, A)
          /\ ou = NoOU
          /\ td = EmptyTd
       \/ /\ \E a \in OUWrapArgs :
                /\ ou = OUProcess_init(a)
                /\ \E ei \in EpsArgs, ee \in EpsArgs, A \in AnnealArgs, dup \in BOOLEAN :
                      w = OUWrapper_init(ei, ee, A, ou, dup)
          /\ td \in {EmptyTd, UsedTd}
    /\ run = RunFrom(td)

NextWrap ==
    \/ \E f \in 0..MaxFrames : EGreedyWrapper_step(f)
    \/ \E f \in 0..MaxFrames : OUWrapper_step(f)
    \/ \E mode \in Modes :
          IF Exploring(mode)
          THEN \E draws \in RandSamples, rnd \in SpecRandSamples :
                  EGreedyWrapper_forward(mode, draws, rnd)
          ELSE EGreedyWrapper_forward(mode, NoDraws, NoDraws)
    \/ \E mode \in Modes :
          IF Exploring(mode)
          THEN \E randn \in RandnSamples : OUWrapper_forward(mode, randn)
          ELSE OUWrapper_forward(mode, NoDraws)

SpecWrap == InitWrap /\ [][NextWrap]_vars

(***************************************************************************)
(* The OU process on its own: add_sample called on a record that a caller  *)
(* may zero or strip between calls.                                        *)
(***************************************************************************)
\* add_sample calls followed on one process.
MaxCalls == 5

\* _OrnsteinUhlenbeckProcess arguments: sigma, sigma_min, n_steps_annealing
\* and x0 vary; theta, mu and dt are the defaults.
OUProcArgs ==
    { [OUDefaultArgs EXCEPT !.n_steps_annealing = 3],
      [OUDefaultArgs EXCEPT !.sigma_min = SomeSigmaMin(<<1, 20>>), !.n_steps_annealing = 2],
      [OUDefaultArgs EXCEPT !.sigma_min = SomeSigmaMin(<<1, 20>>), !.n_steps_annealing = 5],
      [OUDefaultArgs EXCEPT !.sigma = <<1, 2>>, !.sigma_min = SomeSigmaMin(<<1, 4>>),
                            !.n_steps_annealing = 1, !.x0 = <<1, 4>>],
      [OUDefaultArgs EXCEPT !.sigma = <<1, 20>>, !.sigma_min = SomeSigmaMin(<<1, 5>>),
                            !.n_steps_annealing = 2],
      [OUDefaultArgs EXCEPT !.sigma_min = SomeSigmaMin(<<1, 5>>), !.n_steps_annealing = 2],
      [OUDefaultArgs EXCEPT !.sigma_min = SomeSigmaMin(<<1, 20>>), !.n_steps_annealing = 0] }

\* add_sample's eps argument (default 1.0).
EpsDefault == FInt(1)

OUProcess_add_sample(eps, randn) ==
    /\ UNCHANGED rvars
    /\ ou.ctor = "ok" /\ w.kind = "none"
    /\ run.total < MaxCalls
    /\ td' = add_sample(ou, td, eps, randn)
    /\ last' = [NoLast EXCEPT !.op = "add_sample", !.randn = randn, !.eps_arg = eps,
                              !.td_before = td]
    /\ run' = [run EXCEPT !.n = run.n + 1, !.total = run.total + 1]
    /\ UNCHANGED <<w, ou, policy, nframes>>

\* The caller zeroes the record's OU keys at a reset (tensordict.zero_()).
CallerZero ==
    /\ UNCHANGED rvars
    /\ ou.ctor = "ok" /\ w.kind = "none"
    /\ td.keys # {}
    /\ td' = [td EXCEPT !.noise = [i \in Batch |-> FZero], !.steps = [i \in Batch |-> 0]]
    /\ last' = [NoLast EXCEPT !.op = "zero", !.td_before = td]
    /\ run' = [run EXCEPT !.n = 0, !.fresh = FALSE, !.base = [i \in Batch |-> 0]]
    /\ UNCHANGED <<w, ou, policy, nframes>>

\* The caller hands in a record without the OU keys.
CallerRemove ==
    /\ UNCHANGED rvars
    /\ ou.ctor = "ok" /\ w.kind = "none"
    /\ td.keys # {}
    /\ td' = [td EXCEPT !.keys = {}, !.noise = [i \in Batch |-> FUnset],
                        !.steps = [i \in Batch |-> -1]]
    /\ last' = [NoLast EXCEPT !.op = "remove", !.td_before = td]
    /\ run' = [run EXCEPT !.n = 0, !.fresh = TRUE, !.base = [i \in Batch |-> 0]]
    /\ UNCHANGED <<w, ou, policy, nframes>>

InitOU ==
    /\ RecorderIdle
    /\ w = NoWrapper
    /\ policy = FixedPolicy
    /\ last = NoLast
    /\ nframes = 0
    /\ \E a \in OUProcArgs : ou = OUProcess_init(a)
    /\ td \in {PolicyForward(EmptyTd), PolicyForward(UsedTd)}
    /\ run = RunFrom(td)

NextOU ==
    \/ \E randn \in RandnSamples : OUProcess_add_sample(EpsDefault, randn)
    \/ CallerZero
    \/ CallerRemove

SpecOU == InitOU /\ [][NextOU]_vars

\* The wrapper variables of a run that builds no wrapper.
WrapperIdle ==
    /\ w = NoWrapper
    /\ ou = NoOU
    /\ policy = FixedPolicy
    /\ td = EmptyTd
    /\ last = NoLast
    /\ nframes = 0
    /\ run = RunFrom(EmptyTd)

(***************************************************************************)
(* Recorders (torchrl/record/recorder.py).                                 *)
(***************************************************************************)
\* _apply and _call calls followed on one recorder.
MaxRecCalls == 4
\* dump calls followed on one recorder.
MaxDumps == 3
\* In-place changes the caller makes to one of its records.
MaxMutations == 2

\* The skip argument (the frame interval).
SkipArgs == {0, 1, 2, 3}

\* Observations handed to VideoRecorder._apply: a shape class and a pixel
\* value.  "gray" is 2-D; "rgb" is 3-D with last dimension 3; "batched" has
\* last dimension 3 and neither 2 nor 3 dimensions; "bad" has neither 2
\* dimensions nor last dimension 3.
Observations ==
    { [shape |-> "gray", px |-> 7], [shape |-> "gray", px |-> 300],
      [shape |-> "rgb", px |-> 7], [shape |-> "batched", px |-> 7],
      [shape |-> "bad", px |-> 7] }

\* dump's suffix argument.
Suffixes == {"None", "s"}

\* VideoRecorder.__init__: without moviepy the constructor raises.
VideoRecorder_init(skip, moviepy) ==
    [NoRecorder EXCEPT !.kind = "video", !.ctor = IF moviepy THEN "ok" ELSE "Exception",
                       !.skip = skip, !.has_tag = TRUE]

\* TensorDictRecorder.__init__ assigns out_file_base and never tag, which dump
\* reads: base_tag tells whether the base class Transform (outside this
\* file) supplies the attribute.
TensorDictRecorder_init(skip_reset, skip, keys, base_tag) ==
    [NoRecorder EXCEPT !.kind = "td", !.ctor = "ok", !.skip = skip,
                       !.skip_reset = skip_reset, !.keys = keys, !.has_tag = base_tag]

\* observation.shape[-1] == 3 or observation.ndimension() == 2
ShapeAccepted(shape) == shape \in {"gray", "rgb", "batched"}

\* A skip test that retains every frame.
SkipHit_always(count, skip) == TRUE

\* self.count % self.skip == 0 (for skip # 0)
SkipHit(count, skip) == count % skip = 0

\* .to(torch.uint8): an integer pixel wraps modulo 256.
ToUint8(px) == px % 256

\* The channel-first frame appended for a gray or rgb observation.
VideoFrame(obs, id) ==
    [id |-> id, shape |-> IF obs.shape = "gray" THEN "1HW" ELSE "3HW", px |-> ToUint8(obs.px)]

\* The count after _apply's increment.
VideoCount(count) == count + 1

VideoRecorder_apply(obs) ==
    /\ UNCHANGED wvars
    /\ vr.kind = "video" /\ vr.ctor = "ok"
    /\ seen.calls < MaxRecCalls
    /\ LET id == seen.calls + 1
           c1 == VideoCount(vr.count)
           out ==
               IF ~ShapeAccepted(obs.shape)
               THEN [err |-> "RuntimeError", rec |-> vr]
               ELSE IF vr.skip = 0
               THEN [err |-> "ZeroDivisionError", rec |-> [vr EXCEPT !.count = c1]]
               ELSE IF ~SkipHit(c1, vr.skip)
               THEN [err |-> "none", rec |-> [vr EXCEPT !.count = c1]]
               ELSE IF obs.shape = "batched"
               THEN [err |-> "RuntimeError", rec |-> [vr EXCEPT !.count = c1]]
               ELSE [err |-> "none",
                     rec |-> [vr EXCEPT !.count = c1,
                                         !.buf = Append(vr.buf, VideoFrame(obs, id))]]
       IN  /\ vr' = out.rec
           /\ rlast' = [NoRLast EXCEPT !.op = "apply", !.err = out.err, !.before = vr,
                                       !.sink_before = sink, !.heap_before = heap]
           /\ seen' = [seen EXCEPT !.calls = id,
                                   !.log = Append(seen.log, [id |-> id, what |-> obs.shape, err |-> out.err])]
    /\ UNCHANGED <<heap, sink>>

\* torch.stack(frames, 0) needs at least one frame and equal shapes.
Stackable(buf) == buf # <<>> /\ \A i \in 1..Len(buf) : buf[i].shape = buf[1].shape

\* tag = self.tag, or "_".join([self.tag, suffix])
TagOf(suffix) == IF suffix = "None" THEN "tag" ELSE "tag_" \o suffix

\* A dump that keeps the iteration counter.
AfterDump_sameIter(r) == [r EXCEPT !.count = 0, !.buf = <<>>]

\* The state dump leaves behind: iter + 1, count and buffer reset.
AfterDump(r) == [r EXCEPT !.iter = r.iter + 1, !.count = 0, !.buf = <<>>]

VideoRecorder_dump(suffix) ==
    /\ UNCHANGED wvars
    /\ vr.kind = "video" /\ vr.ctor = "ok"
    /\ seen.dumps < MaxDumps
    /\ IF Stackable(vr.buf)
       THEN /\ sink' = Append(sink, [tag |-> TagOf(suffix), global_step |-> vr.iter,
                                     items |-> vr.buf])
            /\ vr' = AfterDump(vr)
            /\ rlast' = [NoRLast EXCEPT !.op = "dump", !.log = seen.log, !.before = vr, !.sink_before = sink,
                                        !.heap_before = heap]
            /\ seen' = [seen EXCEPT !.dumps = seen.dumps + 1, !.log = <<>>]
       ELSE /\ UNCHANGED <<vr, sink>>
            /\ rlast' = [NoRLast EXCEPT !.op = "dump", !.log = seen.log, !.err = "RuntimeError", !.before = vr,
                                        !.sink_before = sink, !.heap_before = heap]
            /\ seen' = [seen EXCEPT !.dumps = seen.dumps + 1]
    /\ UNCHANGED heap

\* The entry _call appends: td itself when keys is empty, else a clone of the
\* selected keys.
Snapshot(r, obj, id) ==
    IF r.keys
    THEN [id |-> id, alias |-> FALSE, obj |-> obj, val |-> heap[obj]]
    ELSE [id |-> id, alias |-> TRUE, obj |-> obj, val |-> heap[obj]]

TensorDictRecorder_call(obj) ==
    /\ UNCHANGED wvars
    /\ vr.kind = "td" /\ vr.ctor = "ok"
    /\ seen.calls < MaxRecCalls
    /\ LET id == seen.calls + 1
           c1 == vr.count + 1
           out ==
               IF vr.skip = 0
               THEN [err |-> "ZeroDivisionError", rec |-> [vr EXCEPT !.count = c1]]
               ELSE IF ~SkipHit(c1, vr.skip)
               THEN [err |-> "none", rec |-> [vr EXCEPT !.count = c1]]
               ELSE [err |-> "none",
                     rec |-> [vr EXCEPT !.count = c1,
                                         !.buf = Append(vr.buf, Snapshot(vr, obj, id))]]
       IN  /\ vr' = out.rec
           /\ rlast' = [NoRLast EXCEPT !.op = "call", !.err = out.err, !.before = vr,
                                       !.sink_before = sink, !.heap_before = heap,
                                       !.arg = obj]
           /\ seen' = [seen EXCEPT !.calls = id,
                                   !.log = Append(seen.log, [id |-> id, what |-> obj, err |-> out.err])]
    /\ UNCHANGED <<heap, sink>>

\* The caller changes one of its records in place.
CallerMutate(obj) ==
    /\ UNCHANGED wvars
    /\ vr.kind = "td" /\ vr.ctor = "ok"
    /\ seen.muts < MaxMutations
    /\ heap' = [heap EXCEPT ![obj] = heap[obj] + 1]
    /\ rlast' = [NoRLast EXCEPT !.op = "mutate", !.before = vr, !.sink_before = sink,
                                !.heap_before = heap, !.arg = obj]
    /\ seen' = [seen EXCEPT !.muts = seen.muts + 1]
    /\ UNCHANGED <<vr, sink>>

\* What a buffered entry holds now: an alias shows the record's current content.
Content(e, h) == IF e.alias THEN h[e.obj] ELSE e.val

\* A dump list that keeps the first snapshot.
DumpList_all(r) == r.buf

\* td = self.td; if self.skip_reset: td = td[1:]
DumpList(r) == IF r.skip_reset /\ r.buf # <<>> THEN Tail(r.buf) ELSE r.buf

TensorDictRecorder_dump(suffix) ==
    /\ UNCHANGED wvars
    /\ vr.kind = "td" /\ vr.ctor = "ok"
    /\ seen.dumps < MaxDumps
    /\ LET lst == DumpList(vr)
           err == IF ~vr.has_tag THEN "AttributeError"
                  ELSE IF lst = <<>> THEN "RuntimeError"
                  ELSE "none"
       IN  /\ IF err = "none"
              THEN /\ sink' = Append(sink,
                                [tag |-> TagOf(suffix) \o "_tensordict.t",
                                 global_step |-> vr.iter,
                                 items |-> [i \in 1..Len(lst) |-> Content(lst[i], heap)]])
                   /\ vr' = AfterDump(vr)
                   /\ seen' = [seen EXCEPT !.dumps = seen.dumps + 1, !.log = <<>>]
              ELSE /\ UNCHANGED <<vr, sink>>
                   /\ seen' = [seen EXCEPT !.dumps = seen.dumps + 1]
           /\ rlast' = [NoRLast EXCEPT !.op = "dump", !.log = seen.log, !.err = err, !.before = vr,
                                       !.sink_before = sink, !.heap_before = heap]
    /\ UNCHANGED heap

InitRec ==
    /\ WrapperIdle
    /\ heap = [o \in Objs |-> 0]
    /\ sink = <<>>
    /\ rlast = NoRLast
    /\ seen = NoSeen
    /\ \/ \E skip \in SkipArgs, moviepy \in BOOLEAN : vr = VideoRecorder_init(skip, moviepy)
       \/ \E skip_reset \in BOOLEAN, skip \in SkipArgs, keys \in BOOLEAN, base_tag \in BOOLEAN :
             vr = TensorDictRecorder_init(skip_reset, skip, keys, base_tag)

NextRec ==
    \/ \E obs \in Observations : VideoRecorder_apply(obs)
    \/ \E suffix \in Suffixes : VideoRecorder_dump(suffix)
    \/ \E obj \in Objs : TensorDictRecorder_call(obj)
    \/ \E obj \in Objs : CallerMutate(obj)
    \/ \E suffix \in Suffixes : TensorDictRecorder_dump(suffix)

SpecRec == InitRec /\ [][NextRec]_vars

(***************************************************************************)
(* Claims about the wrappers (checked under SpecWrap).                     *)
(***************************************************************************)
Constructed == w.ctor = "ok"

\* a > b for rationals <<n, d>> with d > 0.
RatGt(a, b) == a[1] * b[2] > b[1] * a[2]

\* C1: for every wrapper the constructor accepts, after any step calls with
\* frames >= 0 the current epsilon lies in [eps_end, eps_init], and no step
\* call makes epsilon larger than it was before the call.
C1_EpsInRangeNonIncreasing ==
    Constructed =>
        /\ ~FLt(w.eps, w.eps_end)
        /\ ~FGt(w.eps, w.eps_init)
        /\ (last.op = "step" => ~FGt(w.eps, last.eps_before))

\* The grid 2^-GridExp holds every eps_init and eps_end of EpsArgs; a value
\* off the grid cannot equal a closed form computed on it.
GridExp == MantBits + 4

OnGrid(x) == x.k = "fin" /\ (x.m = 0 \/ x.e >= -GridExp \/ x.m % Pow2(-GridExp - x.e) = 0)

Units(x) ==
    IF x.m = 0 THEN 0
    ELSE IF x.e >= -GridExp THEN x.m * Pow2(x.e + GridExp)
    ELSE x.m \div Pow2(-GridExp - x.e)

\* eps = max(eps_end, eps_init - k * (eps_init - eps_end) / annealing_num_steps)
\* in exact arithmetic, for annealing_num_steps > 0.
ClosedForm(wr, k) ==
    IF k >= wr.annealing_num_steps
    THEN wr.eps = wr.eps_end
    ELSE /\ OnGrid(wr.eps)
         /\ wr.annealing_num_steps * Units(wr.eps)
              = (wr.annealing_num_steps - k) * Units(wr.eps_init) + k * Units(wr.eps_end)

Sixteenths(x) ==
    /\ x.k = "fin"
    /\ x.m = 0 \/ (x.e >= -MantBits /\ x.e <= -(MantBits - 1) /\ x.m % Pow2(-4 - x.e) = 0)
       \/ x = FInt(1) \/ x = FInt(-1)

ExactConfig(wr) ==
    /\ Sixteenths(wr.eps_init)
    /\ Sixteenths(wr.eps_end)
    /\ Sixteenths(FDivInt(FSub(wr.eps_init, wr.eps_end), wr.annealing_num_steps))
    /\ FMul(FDivInt(FSub(wr.eps_init, wr.eps_end), wr.annealing_num_steps),
            FInt(wr.annealing_num_steps)) = FSub(wr.eps_init, wr.eps_end)

C3_ConstructionOrder ==
    w.kind # "none" =>
        /\ RatGt(w.args[2], w.args[1]) => ~Constructed
        /\ Constructed => ~FGt(w.eps_end, w.eps_init)
        /\ (Constructed /\ last.op = "init") =>
               w.eps = w.eps_init /\ w.eps_init = FRat(w.args[1][1], w.args[1][2])
        /\ ~RatGt(w.args[2], w.args[1]) =>
               \/ Constructed
               \/ w.kind = "OU" /\ w.ctor \in {"ZeroDivisionError", "RuntimeError"}
        /\ (w.kind = "OU" /\ w.ctor = "RuntimeError") => ~FGt(w.eps_end, w.eps_init)

C3_Witness ==
    /\ w.kind = "OU" /\ w.ctor = "ValueError" /\ RatGt(w.args[2], w.args[1])

\* C4: EGreedyWrapper.forward in random or unset mode: with epsilon 1 every
\* batch element gets the random sample whatever the draw, with epsilon 0
\* every element keeps the policy's action whatever the draw, and for any
\* epsilon each element is exactly the random sample when draw < epsilon and
\* exactly the policy's action otherwise.
C4_EGreedyChoice ==
    (w.kind = "EGreedy" /\ last.op = "forward" /\ last.mode \in {"random", "None"}) =>
        /\ \A i \in Batch :
              td.action[i] = IF FLt(last.draws[i], w.eps) THEN last.rand[i] ELSE policy[i]
        /\ w.eps = FInt(1) => td.action = last.rand
        /\ w.eps = FZero => td.action = policy

C4_Witness ==
    /\ w.kind = "EGreedy" /\ last.op = "forward" /\ last.mode = "None"
    /\ w.eps # FInt(1) /\ w.eps # FZero
    /\ td.action[1] = last.rand[1] /\ td.action[2] = policy[2]
    /\ last.rand[2] # policy[2]

\* C5: in a deterministic mode forward explores nothing: the action is the
\* policy's, and the OU keys of the record are neither changed nor created;
\* in every mode forward leaves the current epsilon unchanged.
C5_DeterministicForward ==
    last.op = "forward" =>
        /\ w.eps = last.eps_before
        /\ last.mode \notin {"random", "None"} =>
              /\ td.action = policy
              /\ td.keys = last.td_before.keys
              /\ td.noise = last.td_before.noise
              /\ td.steps = last.td_before.steps

C5_Witness ==
    /\ w.kind = "OU" /\ last.op = "forward" /\ last.mode = "mode"
    /\ td.keys = {} /\ td.action = policy /\ nframes > 0

\* C10: an OrnsteinUhlenbeckProcessWrapper with annealing_num_steps <= 0
\* fails every step(frames) with frames >= 1 and keeps its epsilon.
C10_OUStepRejects ==
    (w.kind = "OU" /\ last.op = "step" /\ w.annealing_num_steps <= 0 /\ last.frames >= 1) =>
        /\ last.err = "ValueError"
        /\ w.eps = last.eps_before

C10_Witness ==
    /\ w.kind = "OU" /\ last.op = "step" /\ w.annealing_num_steps = 0
    /\ last.frames = 2 /\ last.err = "ValueError" /\ w.eps_init # w.eps_end

\* C11: constructing either wrapper with annealing_num_steps <= 0 raises, so
\* no wrapper with a non-positive annealing horizon exists.
C11_HorizonRejected ==
    (w.kind # "none" /\ Constructed) => w.annealing_num_steps > 0

(***************************************************************************)
(* Claims about the OU process (checked under SpecOU).                     *)
(***************************************************************************)
\* C6: the first add_sample on a record lacking the OU keys starts from zero
\* noise and zero step counters; every add_sample writes back each batch
\* element's step counter raised by exactly 1, so k consecutive calls raise
\* it by exactly k, and call number j on a fresh record uses current_sigma(j-1).
C6_StepCounter ==
    last.op = "add_sample" =>
        LET b     == last.td_before
            lacks == "noise" \notin b.keys
            n0    == [i \in Batch |-> IF lacks THEN 0 ELSE b.steps[i]]
            prev0 == [i \in Batch |-> IF lacks THEN FZero ELSE b.noise[i]]
        IN  /\ td.keys = {"noise", "steps"}
            /\ \A i \in Batch :
                  /\ td.steps[i] = n0[i] + 1
                  /\ td.steps[i] = run.base[i] + run.n
                  /\ td.noise[i] =
                        FSub(OUNoise(ou, FAdd(prev0[i], ou.x0), run.base[i] + run.n - 1,
                                     last.randn[i]),
                             ou.x0)
            /\ run.fresh => \A i \in Batch : td.steps[i] = run.n

C6_Witness ==
    /\ last.op = "add_sample" /\ run.fresh /\ run.n = 2
    /\ td.steps = [i \in Batch |-> 2]
    /\ last.td_before.steps = [i \in Batch |-> 1]
    /\ ou.has_sigma_min /\ FLt(ou.sigma_min, ou.sigma)

CS(n) == current_sigma(ou, n)

SigmaStrictlyMonotonic ==
    \/ \A n \in 0..(ou.n_steps_annealing - 1) : FGt(CS(n), CS(n + 1))
    \/ \A n \in 0..(ou.n_steps_annealing - 1) : FLt(CS(n), CS(n + 1))

ExactSigma(proc) == Sixteenths(proc.sigma) /\ Sixteenths(proc.sigma_min) /\ Sixteenths(proc.m)

StepsBefore(b) == [i \in Batch |-> IF "noise" \notin b.keys THEN 0 ELSE b.steps[i]]

NoiseBefore(b) == [i \in Batch |-> IF "noise" \notin b.keys THEN FZero ELSE b.noise[i]]

RECURSIVE CountOf(_, _)
CountOf(log, whats) ==
    IF log = <<>> THEN 0
    ELSE (IF Head(log).what \in whats THEN 1 ELSE 0) + CountOf(Tail(log), whats)

ValidShapes == {"gray", "rgb"}

\* C8: VideoRecorder with skip = s >= 1: after N valid frames (2-D, or 3-D
\* with 3 channels last) have been passed to _apply since construction or the
\* last dump, the buffer holds exactly floor(N/s) frames; after a dump the
\* buffer is empty and the frame counter is 0.
C8_VideoBuffer ==
    (vr.kind = "video" /\ vr.ctor = "ok" /\ vr.skip >= 1) =>
        /\ CountOf(seen.log, {"batched"}) = 0 =>
              /\ Len(vr.buf) = CountOf(seen.log, ValidShapes) \div vr.skip
              /\ vr.count = CountOf(seen.log, ValidShapes)
        /\ (rlast.op = "dump" /\ rlast.err = "none") => vr.buf = <<>> /\ vr.count = 0

C8_Witness ==
    /\ vr.kind = "video" /\ vr.skip = 2 /\ sink # <<>>
    /\ rlast.op = "apply" /\ rlast.err = "none"
    /\ CountOf(seen.log, ValidShapes) = 2 /\ Len(seen.log) = 2
    /\ Len(vr.buf) = 1 /\ vr.buf[1].id = 4

\* C9: TensorDictRecorder with skip >= 1: _call buffers a snapshot on exactly
\* every skip-th call since construction or the last dump; a dump that has
\* something to persist writes the buffered snapshots in order, without the
\* first one when skip_reset is set, and leaves the buffer empty and the call
\* counter 0.
C9_TensorDictDump ==
    (vr.kind = "td" /\ vr.skip >= 1) =>
        /\ Len(vr.buf) = Len(seen.log) \div vr.skip
        /\ \A i \in 1..Len(vr.buf) : vr.buf[i].id = seen.log[i * vr.skip].id
        /\ (rlast.op = "dump" /\ DumpList(rlast.before) # <<>>) =>
              /\ rlast.err = "none"
              /\ Len(sink) = Len(rlast.sink_before) + 1
              /\ sink[Len(sink)].items =
                    [i \in 1..Len(DumpList(rlast.before)) |->
                        Content(DumpList(rlast.before)[i], heap)]
              /\ vr.buf = <<>>
              /\ vr.count = 0

\* The calls of a log that _apply counted: those that passed its first shape
\* test.
Counted(log) == SelectSeq(log, LAMBDA e : e.what # "bad")

\* The ids of the counted calls at positions that are multiples of skip,
\* without the calls that raised, in order.
RECURSIVE HitIds(_, _, _)
HitIds(k, skip, j) ==
    IF j > Len(k) THEN <<>>
    ELSE (IF j % skip = 0 /\ k[j].err = "none" THEN <<k[j].id>> ELSE <<>>)
         \o HitIds(k, skip, j + 1)

ItemIds(items) == [i \in 1..Len(items) |-> items[i].id]

\* C13: a VideoRecorder dump that completes hands the sink one clip made of
\* exactly the frames whose 1-based position since the previous completed dump
\* is a multiple of skip, in arrival order; the k-th completed dump is written
\* with global_step = k - 1; and _apply never changes the iteration counter.
C13_VideoClip ==
    (vr.kind = "video" /\ vr.ctor = "ok") =>
        /\ vr.iter = Len(sink)
        /\ rlast.op = "apply" => vr.iter = rlast.before.iter /\ sink = rlast.sink_before
        /\ (rlast.op = "dump" /\ rlast.err = "none") =>
              /\ Len(sink) = Len(rlast.sink_before) + 1
              /\ sink[Len(sink)].global_step = Len(sink) - 1
              /\ ItemIds(sink[Len(sink)].items) = HitIds(Counted(rlast.log), vr.skip, 1)
              /\ vr.iter = rlast.before.iter + 1

C13_Witness ==
    /\ vr.kind = "video" /\ vr.skip = 2
    /\ rlast.op = "dump" /\ rlast.err = "none"
    /\ Len(sink) = 2 /\ sink[2].global_step = 1
    /\ ItemIds(sink[1].items) = <<2>> /\ ItemIds(sink[2].items) = <<4>>

\* C14: a frame that VideoRecorder._apply rejects with a shape-validation
\* error leaves the recorder unchanged: frame counter and buffer are as before
\* the call.
C14_RejectedFrameNoEffect ==
    (vr.kind = "video" /\ rlast.op = "apply" /\ rlast.err = "RuntimeError") =>
        /\ vr.count = rlast.before.count
        /\ vr.buf = rlast.before.buf

\* C15: every snapshot buffered by TensorDictRecorder._call stays what the
\* record held at that call, whatever the caller does to the record later,
\* with keys given and with keys empty.
C15_SnapshotsFrozen ==
    vr.kind = "td" => \A i \in 1..Len(vr.buf) : Content(vr.buf[i], heap) = vr.buf[i].val

\* Whether a recorder has nothing to stack: an empty video buffer, or a
\* snapshot buffer that is empty once the skipped first snapshot is left out.
NothingToStack(r) ==
    IF r.kind = "video" THEN r.buf = <<>>
    ELSE IF r.skip_reset THEN Len(r.buf) <= 1
    ELSE r.buf = <<>>

\* C16: a dump with nothing to stack raises before anything is written and
\* leaves the iteration counter, the call or frame counter and the buffer as
\* they were.
C16_EmptyDumpNoEffect ==
    (vr.ctor = "ok" /\ rlast.op = "dump" /\ NothingToStack(rlast.before)) =>
        /\ rlast.err # "none"
        /\ sink = rlast.sink_before
        /\ vr.iter = rlast.before.iter
        /\ vr.count = rlast.before.count
        /\ vr.buf = rlast.before.buf

C16_Witness ==
    /\ vr.kind = "td" /\ vr.has_tag /\ vr.skip_reset /\ vr.skip = 2
    /\ rlast.op = "dump" /\ rlast.err = "RuntimeError"
    /\ Len(vr.buf) = 1 /\ vr.count = 3 /\ sink = <<>>

====
